---------------------------- MODULE Spec2Model ----------------------------
(***************************************************************************)
(* Period tracker (src/src/scripts/period-tracker.ts, class                *)
(* PeriodTrackerFlowbite): the persisted aggregate, the handlers that      *)
(* mutate it, and the calendar overlay that is derived from it.            *)
(*                                                                         *)
(* Calendar days are integers (day numbers); an ISO date string compares   *)
(* and subtracts like its day number.  The empty string of a date input is *)
(* Empty, a null end date is Null and a null currentPeriod is NoPeriod.     *)
(* Date arithmetic is that of a zone without daylight saving, where        *)
(* setDate(getDate() + n) followed by toISOString() moves n days.          *)
(***************************************************************************)
EXTENDS Integers, Sequences, FiniteSets, TLC

VARIABLES
    periods,            \* this.data.periods
    currentPeriod,      \* this.data.currentPeriod
    notes,              \* this.data.notes
    pillsTaken,         \* this.data.pillsTaken
    settings,           \* this.data.settings
    stored,             \* localStorage["period-tracker-data"]
    editingPeriodIndex, \* this.editingPeriodIndex
    isEditMode,         \* this.isEditMode
    periodModal,        \* the period modal: "closed", "start", "add" or "edit"
    resizeTimeout,      \* this.resizeTimeout: the id setTimeout returned last
    timers,             \* the ids of the timers the window holds pending
    isMobile,           \* this.isMobile
    today,              \* the day the wall clock shows
    events,             \* the event source handed to the calendar
    pillStats,          \* the texts of pill-streak-count and pill-compliance-count
    lastOp              \* the last handler that ran, with its outcome

vars == <<periods, currentPeriod, notes, pillsTaken, settings, stored,
          editingPeriodIndex, isEditMode, periodModal,
          resizeTimeout, timers, isMobile, today, events, pillStats, lastOp>>

dataVars == <<periods, currentPeriod, notes, pillsTaken, settings>>
modalVars == <<editingPeriodIndex, isEditMode, periodModal>>

-----------------------------------------------------------------------------
(* Bounds of the model *)

MaxDay == 2
MaxRecords == 2
MaxCount == 3
Today0 == 1
MaxHistory == 4
MaxBack == 1
MaxShortGap == 1
MaxExtraGap == 1
MinLongDuration == 7
MaxDuration == 9
PillSpan == 30
MaxGapBack == 5
MaxTimers == 2

Days == 0..MaxDay

\* values that are no calendar day, far from every day the model computes
Null == -1000000
Empty == -1000001

\* the number parseInt yields for a text that does not start with digits
NaN == -1000002

\* a < b and a >= b in JavaScript: false when either side is NaN
Less(a, b) == a # NaN /\ b # NaN /\ a < b
AtLeast(a, b) == a # NaN /\ b # NaN /\ a >= b

\* a currentPeriod that is null: a record, so that it compares with periods
NoPeriod == [startDate |-> Null, endDate |-> Null]

\* this.editingPeriodIndex: no period, or the open period
NoIndex == -1
CurrentIndex == -2

DateInputs == Days \cup {Empty}

-----------------------------------------------------------------------------
(* Helpers for arrays *)

Range(s) == {s[i] : i \in 1..Len(s)}

\* Array.prototype.splice(index, 1), index counted from 0
Splice(s, index) ==
    IF index < 0 \/ index >= Len(s) THEN s
    ELSE SubSeq(s, 1, index) \o SubSeq(s, index + 2, Len(s))

\* a findIndex that never finds its date: every save then appends
FindIndexNever(s, date) == -1

\* Array.prototype.findIndex on a date key, counted from 0, -1 if absent
FindIndexByDate(s, date) ==
    IF \E i \in 1..Len(s) : s[i].date = date
    THEN (CHOOSE i \in 1..Len(s) :
              /\ s[i].date = date
              /\ \A j \in 1..(i - 1) : s[j].date # date) - 1
    ELSE -1

\* arr[index] = value, index counted from 0 and inside the array
SetAt(s, index, value) == [s EXCEPT ![index + 1] = value]

\* Array.prototype.sort with the comparator a.startDate - b.startDate: a
\* stable sort
InsertByStart(x, s) ==
    LET n == Cardinality({j \in 1..Len(s) : s[j].startDate <= x.startDate})
    IN  SubSeq(s, 1, n) \o <<x>> \o SubSeq(s, n + 1, Len(s))

\* the periods left in the order of insertion
KeepOrder(s) == s

SortPeriods(s) ==
    LET F[i \in 0..Len(s)] ==
            IF i = 0 THEN <<>> ELSE InsertByStart(s[i], F[i - 1])
    IN  F[Len(s)]

\* Array.prototype.sort with the comparator a.date - b.date: a stable sort
InsertByDate(x, s) ==
    LET n == Cardinality({j \in 1..Len(s) : s[j].date <= x.date})
    IN  SubSeq(s, 1, n) \o <<x>> \o SubSeq(s, n + 1, Len(s))

SortPills(s) ==
    LET F[i \in 0..Len(s)] ==
            IF i = 0 THEN <<>> ELSE InsertByDate(s[i], F[i - 1])
    IN  F[Len(s)]


-----------------------------------------------------------------------------
(* Settings *)

DefaultCycleLength == 28
DefaultPeriodLength == 5
DefaultPackDays == 21
BreakDays == 7
HorizonDays == 90
OvulationOffset == 14
FertileBefore == 5
FertileAfter == 1
PredictionCount == 10

\* the settings of a fresh aggregate
DefaultSettings ==
    [cycleLength |-> DefaultCycleLength,
     periodLength |-> DefaultPeriodLength,
     showNextPeriodPrediction |-> TRUE,
     showOvulation |-> TRUE,
     showSafeDays |-> FALSE,
     pillTrackingEnabled |-> FALSE,
     pillReminderEnabled |-> FALSE,
     pillReminderTime |-> "21:00",
     showPillsOnCalendar |-> TRUE,
     pillPackDays |-> DefaultPackDays]

-----------------------------------------------------------------------------
(* Date arithmetic *)

addDaysToDate(dateString, days) == dateString + days

Abs(x) == IF x < 0 THEN -x ELSE x

\* both the start and the end day count
calculateDuration(startDate, endDate) == Abs(endDate - startDate) + 1

\* Math.floor(num / den) in the place of Math.round
MathFloor(num, den) == num \div den

\* Math.round(num / den) for den > 0: the nearest integer, a half goes up
MathRound(num, den) == (2 * num + den) \div (2 * den)

-----------------------------------------------------------------------------
(* Cycle analytics *)

\* the sum of the differences between consecutive start dates
TotalCycleDays(ps) ==
    LET F[i \in 1..Len(ps)] ==
            IF i = 1 THEN 0
            ELSE F[i - 1] + (ps[i].startDate - ps[i - 1].startDate)
    IN  F[Len(ps)]

getAverageCycleLength(ps) ==
    IF Len(ps) >= 2
    THEN MathRound(TotalCycleDays(ps), Len(ps) - 1)
    ELSE 0

\* this.getAverageCycleLength() || 28
CycleLengthOrDefault(ps) ==
    IF getAverageCycleLength(ps) = 0
    THEN DefaultCycleLength
    ELSE getAverageCycleLength(ps)

\* ovulationDay >= 0 in the place of ovulationDay > 0
OvulationFromZero(ps, periodStart) ==
    LET ovulationDay == CycleLengthOrDefault(ps) - OvulationOffset
    IN  IF ovulationDay >= 0
        THEN addDaysToDate(periodStart, ovulationDay)
        ELSE Null

calculateOvulationDate(ps, periodStart) ==
    LET ovulationDay == CycleLengthOrDefault(ps) - OvulationOffset
    IN  IF ovulationDay > 0
        THEN addDaysToDate(periodStart, ovulationDay)
        ELSE Null

calculateNextPeriodDate(ps) ==
    IF Len(ps) < 2 THEN Null
    ELSE IF ps[Len(ps)].endDate = Null THEN Null
    ELSE addDaysToDate(ps[Len(ps)].startDate, CycleLengthOrDefault(ps))

\* every prediction counted from the last start date, none from the previous
\* prediction
FuturePeriodsFromLastStart(ps, count) ==
    IF Len(ps) < 2 THEN <<>>
    ELSE IF ps[Len(ps)].endDate = Null THEN <<>>
    ELSE [i \in 1..count |->
              addDaysToDate(ps[Len(ps)].startDate, CycleLengthOrDefault(ps))]

calculateFuturePeriods(ps, count) ==
    IF Len(ps) < 2 THEN <<>>
    ELSE IF ps[Len(ps)].endDate = Null THEN <<>>
    ELSE LET F[i \in 0..count] ==
                 IF i = 0 THEN ps[Len(ps)].startDate
                 ELSE addDaysToDate(F[i - 1], CycleLengthOrDefault(ps))
         IN  [i \in 1..count |-> F[i]]

\* lastPeriodEnd <= fertileWindowStart in the place of <
SafeDaysUpToWindow(ps) ==
    IF Len(ps) < 2 THEN <<>>
    ELSE IF calculateNextPeriodDate(ps) = Null THEN <<>>
    ELSE
      LET nextPeriodStart == calculateNextPeriodDate(ps)
          ovulationDate == nextPeriodStart - OvulationOffset
          fertileWindowStart == ovulationDate - FertileBefore
          fertileWindowEnd == ovulationDate + FertileAfter
          lastPeriod == ps[Len(ps)]
          lastPeriodEnd == lastPeriod.endDate + 1
          dayAfterFertileWindow == fertileWindowEnd + 1
          before ==
              IF lastPeriod.endDate # Null /\ lastPeriodEnd <= fertileWindowStart
              THEN <<[start |-> lastPeriodEnd,
                      end |-> addDaysToDate(fertileWindowStart, -1)]>>
              ELSE <<>>
          after ==
              IF dayAfterFertileWindow < nextPeriodStart
              THEN <<[start |-> dayAfterFertileWindow,
                      end |-> addDaysToDate(nextPeriodStart, -1)]>>
              ELSE <<>>
      IN  before \o after

\* the ranges are inclusive: [start, end]
calculateSafeDays(ps) ==
    IF Len(ps) < 2 THEN <<>>
    ELSE IF calculateNextPeriodDate(ps) = Null THEN <<>>
    ELSE
      LET nextPeriodStart == calculateNextPeriodDate(ps)
          ovulationDate == nextPeriodStart - OvulationOffset
          fertileWindowStart == ovulationDate - FertileBefore
          fertileWindowEnd == ovulationDate + FertileAfter
          lastPeriod == ps[Len(ps)]
          lastPeriodEnd == lastPeriod.endDate + 1
          dayAfterFertileWindow == fertileWindowEnd + 1
          before ==
              IF lastPeriod.endDate # Null /\ lastPeriodEnd < fertileWindowStart
              THEN <<[start |-> lastPeriodEnd,
                      end |-> addDaysToDate(fertileWindowStart, -1)]>>
              ELSE <<>>
          after ==
              IF dayAfterFertileWindow < nextPeriodStart
              THEN <<[start |-> dayAfterFertileWindow,
                      end |-> addDaysToDate(nextPeriodStart, -1)]>>
              ELSE <<>>
      IN  before \o after

-----------------------------------------------------------------------------
(* Medication schedule *)

\* the earliest recorded date: sortedPills[0].date
FirstPillDate(pills) ==
    CHOOSE d \in {pills[i].date : i \in 1..Len(pills)} :
        \A i \in 1..Len(pills) : d <= pills[i].date

\* the position in the cycle counted from 0
DayInCycleFromZero(date, firstPillDate, packDays) ==
    (date - firstPillDate) % (packDays + BreakDays)

\* (daysSinceFirstPill % fullCycleDays) + 1, for a date not before the first
DayInCycle(date, firstPillDate, packDays) ==
    ((date - firstPillDate) % (packDays + BreakDays)) + 1

ScheduleEvent(date, packDay, now) ==
    [kind |-> "pill-schedule",
     type |-> IF date < now THEN "pill-past" ELSE "pill-future",
     start |-> date, end |-> Null, ref |-> packDay]

\* the loop visits every day after the first pill up to today + 90
generatePillScheduleEvents(pills, st, now) ==
    IF ~st.pillTrackingEnabled \/ ~st.showPillsOnCalendar THEN <<>>
    ELSE IF Len(pills) = 0 THEN <<>>
    ELSE
      LET first == FirstPillDate(pills)
          visited == [k \in 1..(now + HorizonDays - first) |-> first + k]
          Shown(d) ==
              /\ \A i \in 1..Len(pills) : pills[i].date # d
              /\ DayInCycle(d, first, st.pillPackDays) <= st.pillPackDays
          days == SelectSeq(visited, Shown)
      IN  [k \in 1..Len(days) |->
              ScheduleEvent(days[k], DayInCycle(days[k], first, st.pillPackDays), now)]

-----------------------------------------------------------------------------
(* Medication statistics *)

WindowDays == 30

\* the pills sorted by date, the latest first: a stable sort
InsertByDateDesc(x, s) ==
    LET n == Cardinality({j \in 1..Len(s) : s[j].date >= x.date})
    IN  SubSeq(s, 1, n) \o <<x>> \o SubSeq(s, n + 1, Len(s))

SortPillsDesc(s) ==
    LET F[i \in 0..Len(s)] ==
            IF i = 0 THEN <<>> ELSE InsertByDateDesc(s[i], F[i - 1])
    IN  F[Len(s)]

IsTaken(pill) == pill.taken

\* is expectedDate a day of the break that follows a pack
isWithinBreakWeek(pills, st, expectedDate) ==
    IF Len(pills) = 0 THEN FALSE
    ELSE DayInCycle(expectedDate, FirstPillDate(pills), st.pillPackDays)
             > st.pillPackDays

\* a turn of the loop that counts a pill without stepping a day back
StreakStepKeepDate(pills, st, w, pill) ==
    IF pill.date = w.currentDate
    THEN [w EXCEPT !.streak = w.streak + 1]
    ELSE w

\* a turn of the loop that forgets the streak when it meets a gap
StreakStepResetOnGap(pills, st, w, pill) ==
    IF w.broken THEN w
    ELSE IF pill.date = w.currentDate
    THEN [w EXCEPT !.streak = w.streak + 1, !.currentDate = w.currentDate - 1]
    ELSE IF pill.date < w.currentDate
              /\ w.currentDate - pill.date > 1
              /\ ~isWithinBreakWeek(pills, st, w.currentDate)
    THEN [w EXCEPT !.streak = 0, !.broken = TRUE]
    ELSE w

\* one turn of the loop over sortedPills: w is the streak so far, the date
\* the loop waits for, and whether the loop was left by break
StreakStep(pills, st, w, pill) ==
    IF w.broken THEN w
    ELSE IF pill.date = w.currentDate
    THEN [w EXCEPT !.streak = w.streak + 1, !.currentDate = w.currentDate - 1]
    ELSE IF pill.date < w.currentDate
              /\ w.currentDate - pill.date > 1
              /\ ~isWithinBreakWeek(pills, st, w.currentDate)
    THEN [w EXCEPT !.broken = TRUE]
    ELSE w

calculatePillStreak(pills, st, now) ==
    IF ~st.pillTrackingEnabled \/ Len(pills) = 0 THEN 0
    ELSE
      LET sortedPills == SelectSeq(SortPillsDesc(pills), IsTaken)
          todayTaken ==
              /\ \E i \in 1..Len(pills) : pills[i].date = now
              /\ pills[CHOOSE i \in 1..Len(pills) :
                           /\ pills[i].date = now
                           /\ \A j \in 1..(i - 1) : pills[j].date # now].taken
          start == [streak |-> 0,
                    currentDate |-> IF todayTaken THEN now ELSE now - 1,
                    broken |-> FALSE]
          W[i \in 0..Len(sortedPills)] ==
              IF i = 0 THEN start
              ELSE StreakStep(pills, st, W[i - 1], sortedPills[i])
      IN  W[Len(sortedPills)].streak

\* every record, whatever its date
AllPills(pills, now, atMidnight) == pills

\* the records from thirtyDaysAgo to now: thirtyDaysAgo is the instant 30
\* days before now, so the day 30 days back counts only when now is 00:00:00
pillsInLast30Days(pills, now, atMidnight) ==
    LET InWindow(pill) ==
            /\ pill.date <= now
            /\ \/ pill.date > now - WindowDays
               \/ atMidnight /\ pill.date = now - WindowDays
    IN  SelectSeq(pills, InWindow)

complianceRate(pills, now, atMidnight) ==
    LET inWindow == pillsInLast30Days(pills, now, atMidnight)
        takenPills == SelectSeq(inWindow, IsTaken)
    IN  IF Len(inWindow) > 0
        THEN MathRound(Len(takenPills) * 100, Len(inWindow))
        ELSE 100

-----------------------------------------------------------------------------
(* Calendar overlay: generateCalendarEvents.  An entry has the prefix of its *)
(* id as kind, extendedProps.type as type, start, the exclusive end (Null   *)
(* for a one-day entry) and ref: the period index, the prediction number or *)
(* the pack day it carries.                                                 *)

Event(kind, type, start, end, ref) ==
    [kind |-> kind, type |-> type, start |-> start, end |-> end, ref |-> ref]

\* the entries of a completed period that end on its last day
PeriodEventsInclusiveEnd(ps, st, index) ==
    LET period == ps[index + 1] IN
    IF period.endDate = Null THEN <<>>
    ELSE <<Event("period-bg", "period-bg", period.startDate, period.endDate, index),
           Event("period-click", "period", period.startDate, period.endDate, index)>>

\* the entries of the completed period at index (from 0)
PeriodEvents(ps, st, index) ==
    LET period == ps[index + 1] IN
    IF period.endDate = Null THEN <<>>
    ELSE
      <<Event("period-bg", "period-bg", period.startDate,
              addDaysToDate(period.endDate, 1), index),
        Event("period-click", "period", period.startDate,
              addDaysToDate(period.endDate, 1), index)>>
      \o (IF st.showOvulation /\ calculateOvulationDate(ps, period.startDate) # Null
          THEN <<Event("ovulation", "ovulation",
                       calculateOvulationDate(ps, period.startDate), Null, index)>>
          ELSE <<>>)

CurrentPeriodEvents(cur, st, now) ==
    IF cur = NoPeriod THEN <<>>
    ELSE
      LET expectedEndDate == addDaysToDate(cur.startDate, st.periodLength - 1)
          displayEndDate == IF now > expectedEndDate THEN now ELSE expectedEndDate
      IN  <<Event("current-period-bg", "current-period-bg", cur.startDate,
                  addDaysToDate(displayEndDate, 1), Null),
            Event("current-period-click", "current-period", cur.startDate,
                  addDaysToDate(displayEndDate, 1), Null)>>

NoteEvents(note, index) ==
    IF note.symptoms # {} \/ note.notes # ""
    THEN <<Event("note", "note", note.date, Null, index)>>
    ELSE <<>>

\* the recorded medication entries whatever the settings are
PillEventsUngated(pills, st, now) ==
    [i \in 1..Len(pills) |-> Event("pill", "pill", pills[i].date, Null, i - 1)]
    \o generatePillScheduleEvents(pills, st, now)

PillEvents(pills, st, now) ==
    IF st.pillTrackingEnabled /\ st.showPillsOnCalendar
    THEN [i \in 1..Len(pills) |->
              Event("pill", "pill", pills[i].date, Null, i - 1)]
         \o generatePillScheduleEvents(pills, st, now)
    ELSE <<>>

PredictionEvents(ps, st) ==
    IF st.showNextPeriodPrediction /\ Len(ps) >= 2
    THEN LET fut == calculateFuturePeriods(ps, PredictionCount)
         IN  [j \in 1..(2 * Len(fut)) |->
                  LET i == (j + 1) \div 2
                      predictionEndDate == addDaysToDate(fut[i], st.periodLength - 1)
                  IN  Event(IF j % 2 = 1 THEN "period-prediction"
                                         ELSE "period-prediction-clickable",
                            "period-prediction", fut[i],
                            addDaysToDate(predictionEndDate, 1), i)]
    ELSE <<>>

SafeDayEvents(ps, st) ==
    IF st.showSafeDays /\ Len(ps) >= 2
    THEN LET ranges == calculateSafeDays(ps)
         IN  [i \in 1..Len(ranges) |->
                  Event("safe-days", "safe-days", ranges[i].start,
                        addDaysToDate(ranges[i].end, 1), i - 1)]
    ELSE <<>>

generateCalendarEvents(ps, cur, ns, pills, st, now) ==
    LET P[i \in 0..Len(ps)] ==
            IF i = 0 THEN <<>> ELSE P[i - 1] \o PeriodEvents(ps, st, i - 1)
        N[i \in 0..Len(ns)] ==
            IF i = 0 THEN <<>> ELSE N[i - 1] \o NoteEvents(ns[i], i - 1)
    IN  P[Len(ps)] \o CurrentPeriodEvents(cur, st, now) \o N[Len(ns)]
        \o PillEvents(pills, st, now) \o PredictionEvents(ps, st)
        \o SafeDayEvents(ps, st)

-----------------------------------------------------------------------------
(* The aggregate, its persisted blob and the inputs of the handlers *)

AllKeys == {"periods", "currentPeriod", "notes", "pillsTaken", "settings"}

\* an aggregate as a document: the keys it has and their values
Doc(keys, ps, cur, ns, pills, st) ==
    [keys |-> keys, periods |-> ps, currentPeriod |-> cur, notes |-> ns,
     pillsTaken |-> pills, settings |-> st]

\* this.data
Data == Doc(AllKeys, periods, currentPeriod, notes, pillsTaken, settings)

Period(startDate, endDate) == [startDate |-> startDate, endDate |-> endDate]

\* what a user enters in the note modal and in the pill modal
NoteForms ==
    {[symptoms |-> {}, notes |-> ""],
     [symptoms |-> {"cramps"}, notes |-> "text"]}
PillTimes == {"21:00"}
MissedReasons == {"forgot"}

\* the checkboxes of the settings modal, all set or all cleared
TogglePresets ==
    {[showNextPeriodPrediction |-> b, showOvulation |-> b, showSafeDays |-> b,
      pillTrackingEnabled |-> b, pillReminderEnabled |-> b] : b \in BOOLEAN}

\* the values a user submits in the settings modal
SettingsForm(cycleLength, periodLength, pillPackDays, toggles) ==
    [cycleLength |-> cycleLength, periodLength |-> periodLength,
     pillPackDays |-> pillPackDays, toggles |-> toggles]

\* a valid form with either preset, forms with one number out of range, and
\* a form whose cycle length is no number
AllShown == CHOOSE t \in TogglePresets : t.showOvulation
SettingsForms ==
    {SettingsForm(30, 4, 28, t) : t \in TogglePresets}
    \cup {SettingsForm(c, 4, 28, AllShown) : c \in {20, 41}}
    \cup {SettingsForm(30, n, 28, AllShown) : n \in {0, 11}}
    \cup {SettingsForm(30, 4, k, AllShown) : k \in {13, 29}}
    \cup {SettingsForm(NaN, 4, 28, t) : t \in TogglePresets \ {AllShown}}

\* the documents a user picks for import: text that does not parse, a full
\* aggregate, and a parseable document without the notes key
FullDoc ==
    Doc(AllKeys, <<Period(0, 0)>>, Period(1, Null), <<>>, <<>>, DefaultSettings)
PartialDoc ==
    Doc(AllKeys \ {"notes"}, <<Period(0, 1)>>, NoPeriod, <<>>, <<>>, DefaultSettings)
ImportFiles ==
    {[parses |-> FALSE, doc |-> FullDoc],
     [parses |-> TRUE, doc |-> FullDoc],
     [parses |-> TRUE, doc |-> PartialDoc]}

\* the number of records the aggregate holds
Records ==
    Len(periods) + (IF currentPeriod = NoPeriod THEN 0 ELSE 1)
    + Len(notes) + Len(pillsTaken)

Room == Records < MaxRecords

-----------------------------------------------------------------------------
(* Steps shared by the handlers *)

\* a text with a zero cycle length, whatever the aggregate holds
StringifyZeroCycle(doc) == [doc EXCEPT !.settings.cycleLength = 0]

\* JSON.stringify writes null for a number that is NaN
Stringify(doc) ==
    IF doc.settings.cycleLength = NaN
    THEN [doc EXCEPT !.settings.cycleLength = Null]
    ELSE doc

\* localStorage.setItem("period-tracker-data", JSON.stringify(this.data))
saveData(doc) == stored' = <<Stringify(doc)>>

\* this.calendar.removeAllEvents(); addEventSource(generateCalendarEvents())
refreshCalendar(ps, cur, ns, pills, st) ==
    events' = generateCalendarEvents(ps, cur, ns, pills, st, today)

\* this.data becomes the given values, is saved, and the calendar is redrawn
Commit(ps, cur, ns, pills, st) ==
    /\ periods' = ps
    /\ currentPeriod' = cur
    /\ notes' = ns
    /\ pillsTaken' = pills
    /\ settings' = st
    /\ saveData(Doc(AllKeys, ps, cur, ns, pills, st))
    /\ refreshCalendar(ps, cur, ns, pills, st)

\* updatePillStats: the streak is written only while tracking is on (0 is
\* shown as "-"), the compliance always
updatePillStats(pills, st) ==
    \E atMidnight \in BOOLEAN :
        pillStats' =
            [streak |-> IF st.pillTrackingEnabled
                        THEN calculatePillStreak(pills, st, today)
                        ELSE pillStats.streak,
             compliance |-> complianceRate(pills, today, atMidnight)]

\* updateUI, as far as the medication statistics go: updatePillUI
updateUI(pills, st) ==
    IF st.pillTrackingEnabled
    THEN updatePillStats(pills, st)
    ELSE UNCHANGED pillStats

\* saveData, updateUI, refreshCalendar
CommitUI(ps, cur, ns, pills, st) ==
    /\ Commit(ps, cur, ns, pills, st)
    /\ updateUI(pills, st)

\* saveData, updatePillStats, refreshCalendar
CommitPill(ps, cur, ns, pills, st) ==
    /\ Commit(ps, cur, ns, pills, st)
    /\ updatePillStats(pills, st)

\* saveData, refreshCalendar
CommitNote(ps, cur, ns, pills, st) ==
    /\ Commit(ps, cur, ns, pills, st)
    /\ UNCHANGED pillStats

\* an early return: nothing but the outcome changes
Rejected(outcome) ==
    /\ lastOp' = outcome
    /\ UNCHANGED <<dataVars, stored, pillStats, modalVars, events>>

closePeriodModal ==
    /\ periodModal' = "closed"
    /\ editingPeriodIndex' = NoIndex
    /\ isEditMode' = FALSE

envVars == <<resizeTimeout, timers, isMobile, today>>

\* the statistics of the page as served, before any updatePillStats
NoStats == [streak |-> Null, compliance |-> Null]

-----------------------------------------------------------------------------
(* Initial state: the constructor with nothing persisted *)

Init ==
    /\ periods = <<>>
    /\ currentPeriod = NoPeriod
    /\ notes = <<>>
    /\ pillsTaken = <<>>
    /\ settings = DefaultSettings
    /\ stored = <<>>
    /\ editingPeriodIndex = NoIndex
    /\ isEditMode = FALSE
    /\ periodModal = "closed"
    /\ resizeTimeout = Null
    /\ timers = {}
    /\ isMobile = FALSE
    /\ today = Today0
    /\ events = <<>>
    /\ pillStats = NoStats
    /\ lastOp = "init"

-----------------------------------------------------------------------------
(* The period modal *)

\* click on start-period-btn, which updateUI disables while a period is open
ClickStartPeriod ==
    /\ periodModal = "closed"
    /\ IF currentPeriod # NoPeriod
       THEN Rejected("startPeriod:disabled")
       ELSE /\ periodModal' = "start"
            /\ isEditMode' = FALSE
            /\ lastOp' = "openPeriodModal:start"
            /\ UNCHANGED <<dataVars, stored, pillStats, editingPeriodIndex, events>>
    /\ UNCHANGED envVars

\* click on add-period-btn
ClickAddPeriod ==
    /\ periodModal = "closed"
    /\ periodModal' = "add"
    /\ isEditMode' = FALSE
    /\ lastOp' = "openPeriodModal:add"
    /\ UNCHANGED <<dataVars, stored, pillStats, editingPeriodIndex, events, envVars>>

\* handleEventClick on a period entry or on the open period's entry
ClickPeriodEvent ==
    /\ periodModal = "closed"
    /\ \E i \in 1..Len(events) :
          /\ events[i].type \in {"period", "current-period"}
          /\ editingPeriodIndex' =
                 IF events[i].type = "current-period"
                 THEN CurrentIndex ELSE events[i].ref
    /\ periodModal' = "edit"
    /\ isEditMode' = TRUE
    /\ lastOp' = "openPeriodModal:edit"
    /\ UNCHANGED <<dataVars, stored, pillStats, events, envVars>>

\* period-cancel-btn and the close button
CancelPeriodModal ==
    /\ periodModal # "closed"
    /\ closePeriodModal
    /\ lastOp' = "closePeriodModal"
    /\ UNCHANGED <<dataVars, stored, pillStats, events, envVars>>

\* handlePeriodSubmit in start mode
confirmStartPeriod ==
    /\ periodModal = "start"
    /\ ~isEditMode
    /\ \E selectedDate \in DateInputs :
          IF currentPeriod # NoPeriod
          THEN Rejected("confirmStartPeriod:ongoing")
          ELSE IF selectedDate = Empty
          THEN Rejected("confirmStartPeriod:no-date")
          ELSE /\ Room
               /\ CommitUI(periods, Period(selectedDate, Null), notes,
                         pillsTaken, settings)
               /\ closePeriodModal
               /\ lastOp' = "confirmStartPeriod:started"
    /\ UNCHANGED envVars

\* the inclusive ranges [newStart, newEnd] and some completed period intersect
\* an overlap test that lets periods touch on a shared day
HasOverlapStrict(ps, newStart, newEnd) ==
    \E i \in 1..Len(ps) :
        /\ ps[i].endDate # Null
        /\ newStart < ps[i].endDate
        /\ newEnd > ps[i].startDate

HasOverlap(ps, newStart, newEnd) ==
    \E i \in 1..Len(ps) :
        /\ ps[i].endDate # Null
        /\ newStart <= ps[i].endDate
        /\ newEnd >= ps[i].startDate

\* a date test that also refuses a period of one day
EndNotAfterStart(startDate, endDate) == endDate <= startDate

\* new Date(endDate) < new Date(startDate)
EndBeforeStart(startDate, endDate) == endDate < startDate

\* the outcome of a submitted form, with the dates that were entered
Outcome(op, startDate, endDate) ==
    op \o "(" \o ToString(startDate) \o "," \o ToString(endDate) \o ")"

\* handlePeriodSubmit in add mode
addCompletedPeriod ==
    /\ periodModal = "add"
    /\ ~isEditMode
    /\ \E startDate \in DateInputs, endDate \in DateInputs, confirmed \in BOOLEAN :
          IF startDate = Empty
          THEN Rejected(Outcome("addCompletedPeriod:no-start", startDate, endDate))
          ELSE IF endDate = Empty
          THEN Rejected(Outcome("addCompletedPeriod:no-end", startDate, endDate))
          ELSE IF EndBeforeStart(startDate, endDate)
          THEN Rejected(Outcome("addCompletedPeriod:end-before-start",
                                startDate, endDate))
          ELSE IF HasOverlap(periods, startDate, endDate) /\ ~confirmed
          THEN Rejected(Outcome("addCompletedPeriod:overlap-declined",
                                startDate, endDate))
          ELSE /\ Room
               /\ CommitUI(SortPeriods(Append(periods, Period(startDate, endDate))),
                         currentPeriod, notes, pillsTaken, settings)
               /\ closePeriodModal
               /\ lastOp' = Outcome(IF HasOverlap(periods, startDate, endDate)
                                    THEN "addCompletedPeriod:overlap-added"
                                    ELSE "addCompletedPeriod:added",
                                    startDate, endDate)
    /\ UNCHANGED envVars

\* click on end-period-btn: the open period ends today
endPeriod ==
    /\ periodModal = "closed"
    /\ IF currentPeriod = NoPeriod
       THEN Rejected("endPeriod:none")
       ELSE /\ CommitUI(Append(periods, Period(currentPeriod.startDate, today)),
                      NoPeriod, notes, pillsTaken, settings)
            /\ lastOp' = "endPeriod:ended"
            /\ UNCHANGED modalVars
    /\ UNCHANGED envVars

\* this.data.periods[index] = period, for an index up to the length
AssignPeriod(ps, index, period) ==
    IF index < Len(ps) THEN SetAt(ps, index, period) ELSE Append(ps, period)

\* handlePeriodSubmit in edit mode; an empty end date input is null
savePeriodChanges ==
    /\ periodModal = "edit"
    /\ isEditMode
    /\ \E startDate \in DateInputs, endInput \in DateInputs :
          LET endDate == IF endInput = Empty THEN Null ELSE endInput IN
          IF startDate = Empty
          THEN Rejected("savePeriodChanges:no-start")
          ELSE /\ IF editingPeriodIndex = CurrentIndex
                  THEN IF currentPeriod # NoPeriod
                       THEN IF endDate # Null
                            THEN CommitUI(Append(periods, Period(startDate, endDate)),
                                        NoPeriod, notes, pillsTaken, settings)
                            ELSE CommitUI(periods, Period(startDate, endDate),
                                        notes, pillsTaken, settings)
                       ELSE CommitUI(periods, currentPeriod, notes, pillsTaken, settings)
                  ELSE IF editingPeriodIndex >= 0
                  THEN CommitUI(AssignPeriod(periods, editingPeriodIndex,
                                           Period(startDate, endDate)),
                              currentPeriod, notes, pillsTaken, settings)
                  ELSE CommitUI(periods, currentPeriod, notes, pillsTaken, settings)
               /\ closePeriodModal
               /\ lastOp' = "savePeriodChanges:saved"
    /\ UNCHANGED envVars

\* period-delete-btn, shown in edit mode only
deletePeriod ==
    /\ periodModal = "edit"
    /\ \E confirmed \in BOOLEAN :
          IF ~confirmed
          THEN Rejected("deletePeriod:declined")
          ELSE /\ IF editingPeriodIndex = CurrentIndex
                  THEN CommitUI(periods, NoPeriod, notes, pillsTaken, settings)
                  ELSE IF editingPeriodIndex >= 0
                  THEN CommitUI(Splice(periods, editingPeriodIndex),
                              currentPeriod, notes, pillsTaken, settings)
                  ELSE CommitUI(periods, currentPeriod, notes, pillsTaken, settings)
               /\ closePeriodModal
               /\ lastOp' = "deletePeriod:deleted"
    /\ UNCHANGED envVars

-----------------------------------------------------------------------------
(* Notes *)

\* save-note-btn: the date input is taken as it is, empty or not
saveNote ==
    /\ periodModal = "closed"
    /\ \E date \in DateInputs, form \in NoteForms :
          LET noteData == [date |-> date, symptoms |-> form.symptoms,
                           notes |-> form.notes]
              existingNoteIndex == FindIndexByDate(notes, date)
          IN  IF existingNoteIndex >= 0
              THEN /\ CommitNote(periods, currentPeriod,
                             SetAt(notes, existingNoteIndex, noteData),
                             pillsTaken, settings)
                   /\ lastOp' = "saveNote:replaced"
              ELSE /\ Room
                   /\ CommitNote(periods, currentPeriod, Append(notes, noteData),
                             pillsTaken, settings)
                   /\ lastOp' = "saveNote:added"
    /\ UNCHANGED <<modalVars, envVars>>

\* delete-note-btn
deleteNote ==
    /\ periodModal = "closed"
    /\ \E date \in DateInputs :
          IF date = Empty
          THEN Rejected("deleteNote:no-date")
          ELSE IF FindIndexByDate(notes, date) < 0
          THEN Rejected("deleteNote:absent")
          ELSE /\ CommitNote(periods, currentPeriod,
                         Splice(notes, FindIndexByDate(notes, date)),
                         pillsTaken, settings)
               /\ lastOp' = "deleteNote:deleted"
               /\ UNCHANGED modalVars
    /\ UNCHANGED envVars

-----------------------------------------------------------------------------
(* Medication events; the pill modal is reachable with tracking enabled *)

savePill ==
    /\ periodModal = "closed"
    /\ settings.pillTrackingEnabled
    /\ \E date \in DateInputs, taken \in BOOLEAN,
          time \in PillTimes, reason \in MissedReasons :
          LET pillData == [date |-> date, taken |-> taken,
                           time |-> IF taken THEN time ELSE "undefined",
                           missedReason |-> IF taken THEN "undefined" ELSE reason]
              existingPillIndex == FindIndexByDate(pillsTaken, date)
          IN  IF date = Empty
              THEN Rejected("savePill:no-date")
              ELSE IF existingPillIndex >= 0
              THEN /\ CommitPill(periods, currentPeriod, notes,
                             SortPills(SetAt(pillsTaken, existingPillIndex, pillData)),
                             settings)
                   /\ lastOp' = "savePill:replaced"
                   /\ UNCHANGED modalVars
              ELSE /\ Room
                   /\ CommitPill(periods, currentPeriod, notes,
                             SortPills(Append(pillsTaken, pillData)), settings)
                   /\ lastOp' = "savePill:added"
                   /\ UNCHANGED modalVars
    /\ UNCHANGED envVars

deletePill ==
    /\ periodModal = "closed"
    /\ settings.pillTrackingEnabled
    /\ \E date \in DateInputs, confirmed \in BOOLEAN :
          IF date = Empty
          THEN Rejected("deletePill:no-date")
          ELSE IF ~confirmed
          THEN Rejected("deletePill:declined")
          ELSE IF FindIndexByDate(pillsTaken, date) < 0
          THEN Rejected("deletePill:absent")
          ELSE /\ CommitPill(periods, currentPeriod, notes,
                         Splice(pillsTaken, FindIndexByDate(pillsTaken, date)),
                         settings)
               /\ lastOp' = "deletePill:deleted"
               /\ UNCHANGED modalVars
    /\ UNCHANGED envVars

-----------------------------------------------------------------------------
(* Settings *)

MinCycleLength == 21
MaxCycleLength == 40
MinPeriodLength == 1
MaxPeriodLength == 10
MinPackDays == 14
MaxPackDays == 28

\* the settings after save-settings-btn with a form that passed validation
AppliedSettings(st, form) ==
    [st EXCEPT
        !.cycleLength = form.cycleLength,
        !.periodLength = form.periodLength,
        !.showNextPeriodPrediction = form.toggles.showNextPeriodPrediction,
        !.showOvulation = form.toggles.showOvulation,
        !.showSafeDays = form.toggles.showSafeDays,
        !.pillTrackingEnabled = form.toggles.pillTrackingEnabled,
        !.pillReminderEnabled = form.toggles.pillReminderEnabled,
        !.pillReminderTime = "21:00",
        !.pillPackDays = form.pillPackDays]

saveSettings ==
    /\ periodModal = "closed"
    /\ \E form \in SettingsForms :
          IF Less(form.cycleLength, MinCycleLength)
                \/ Less(MaxCycleLength, form.cycleLength)
          THEN Rejected("saveSettings:cycle-length")
          ELSE IF Less(form.periodLength, MinPeriodLength)
                  \/ Less(MaxPeriodLength, form.periodLength)
          THEN Rejected("saveSettings:period-length")
          ELSE IF AtLeast(form.periodLength, form.cycleLength)
          THEN Rejected("saveSettings:period-not-shorter")
          ELSE IF Less(form.pillPackDays, MinPackDays)
                  \/ Less(MaxPackDays, form.pillPackDays)
          THEN Rejected("saveSettings:pack-days")
          ELSE /\ CommitUI(periods, currentPeriod, notes, pillsTaken,
                         AppliedSettings(settings, form))
               /\ lastOp' = "saveSettings:saved"
               /\ UNCHANGED modalVars
    /\ UNCHANGED envVars

-----------------------------------------------------------------------------
(* Import, reset *)

\* the value of a key after generateCalendarEvents' safety check
ArrayOrEmpty(doc, key, value) == IF key \in doc.keys THEN value ELSE <<>>

\* export-data-btn: JSON.stringify(this.data) is offered as a download
exportData ==
    /\ periodModal = "closed"
    /\ lastOp' = "exportData:downloaded"
    /\ UNCHANGED <<dataVars, stored, pillStats, modalVars, events, envVars>>

\* the file in the download folder: the text exportData wrote, as long as no
\* other handler has run since
Downloads ==
    IF lastOp = "exportData:downloaded"
    THEN {[parses |-> TRUE, doc |-> Stringify(Data)]}
    ELSE {}

\* reader.onload: JSON.parse, this.data = importedData, saveData, updateUI,
\* refreshCalendar; a parse error is caught
ImportLoaded(file) ==
    IF ~file.parses
    THEN Rejected("importData:parse-error")
    ELSE /\ saveData(file.doc)
         /\ periods' = ArrayOrEmpty(file.doc, "periods", file.doc.periods)
         /\ notes' = ArrayOrEmpty(file.doc, "notes", file.doc.notes)
         /\ currentPeriod' = file.doc.currentPeriod
         /\ pillsTaken' = file.doc.pillsTaken
         /\ settings' = file.doc.settings
         /\ updateUI(file.doc.pillsTaken, file.doc.settings)
         /\ refreshCalendar(periods', currentPeriod', notes', pillsTaken',
                            settings')
         /\ lastOp' = "importData:imported"
         /\ UNCHANGED modalVars

\* import-data-btn with the file picked and read while no dialog is open
importData ==
    /\ periodModal = "closed"
    /\ \E file \in ImportFiles \cup Downloads : ImportLoaded(file)
    /\ UNCHANGED envVars

\* import-data-btn with the file picked before a period entry was clicked:
\* the file is read in the background, and reader.onload runs when the edit
\* dialog is already open
importDataWhileEditing ==
    /\ periodModal = "edit"
    /\ \E file \in ImportFiles : ImportLoaded(file)
    /\ UNCHANGED envVars

\* clear-data-btn
clearAllData ==
    /\ periodModal = "closed"
    /\ \E confirmed \in BOOLEAN :
          IF ~confirmed
          THEN Rejected("clearAllData:declined")
          ELSE /\ CommitUI(<<>>, NoPeriod, <<>>, <<>>, DefaultSettings)
               /\ lastOp' = "clearAllData:cleared"
               /\ UNCHANGED modalVars
    /\ UNCHANGED envVars

\* the outcomes that follow confirm() answered with OK, and those that
\* follow confirm() answered with Cancel
ConfirmedOutcomes ==
    {"deletePeriod:deleted", "deletePill:deleted", "clearAllData:cleared"}

DeclinedOutcomes ==
    {"deletePeriod:declined", "deletePill:declined", "clearAllData:declined"}

-----------------------------------------------------------------------------
(* The environment: the clock and the window *)

\* midnight passes; no handler runs
Tick ==
    /\ today < MaxDay
    /\ today' = today + 1
    /\ UNCHANGED <<dataVars, stored, pillStats, modalVars, events, lastOp,
                   resizeTimeout, timers, isMobile>>

\* the ids setTimeout can return
TimerIds == 1..MaxTimers

\* a resize handler that leaves the pending timer alone
KeepTimer(pending, id) == pending

\* clearTimeout(id): the timer is pending no longer; an id that names no
\* pending timer is ignored
clearTimeout(pending, id) == pending \ {id}

\* the id setTimeout returns: one that no pending timer has
FreshTimer(pending) ==
    CHOOSE id \in TimerIds \ pending : \A other \in TimerIds \ pending : id <= other

\* a resize event: clearTimeout(this.resizeTimeout), then setTimeout
ResizeTrigger ==
    LET pending == clearTimeout(timers, resizeTimeout)
    IN  /\ TimerIds \ pending # {}
        /\ resizeTimeout' = FreshTimer(pending)
        /\ timers' = pending \cup {resizeTimeout'}
        /\ UNCHANGED <<dataVars, stored, pillStats, modalVars, events, lastOp,
                       isMobile, today>>

\* a pending timer fires: updateMobileState, refreshCalendar
ResizeFire ==
    /\ \E id \in timers : timers' = timers \ {id}
    /\ isMobile' \in BOOLEAN
    /\ refreshCalendar(periods, currentPeriod, notes, pillsTaken, settings)
    /\ UNCHANGED <<dataVars, stored, pillStats, modalVars, lastOp, today,
                   resizeTimeout>>

-----------------------------------------------------------------------------
(* The specification *)

Next ==
    \/ ClickStartPeriod
    \/ ClickAddPeriod
    \/ ClickPeriodEvent
    \/ CancelPeriodModal
    \/ confirmStartPeriod
    \/ addCompletedPeriod
    \/ endPeriod
    \/ savePeriodChanges
    \/ deletePeriod
    \/ saveNote
    \/ deleteNote
    \/ savePill
    \/ deletePill
    \/ saveSettings
    \/ importData
    \/ clearAllData

Spec == Init /\ [][Next]_vars

\* notes and medication events alone, from the empty aggregate
NextRecords ==
    \/ saveNote
    \/ deleteNote
    \/ savePill
    \/ deletePill
    \/ saveSettings

SpecRecords == Init /\ [][NextRecords]_vars

\* export and import over notes and settings, from the empty aggregate
NextTransfer ==
    \/ saveNote
    \/ deleteNote
    \/ saveSettings
    \/ exportData
    \/ importData
    \/ clearAllData

SpecTransfer == Init /\ [][NextTransfer]_vars

-----------------------------------------------------------------------------
(* The analytics over recorded histories: the constructor finds a persisted *)
(* history, the calendar is drawn from it and redrawn on resize.            *)

\* the days between consecutive start dates: MaxBack days back, the same
\* day, MaxShortGap days on, a cycle of 28 days, or one MaxExtraGap longer
Gaps ==
    {0 - MaxBack, 0, MaxShortGap, DefaultCycleLength,
     DefaultCycleLength + MaxExtraGap}

\* the end of the last period: open, after DefaultPeriodLength days, or
\* after MinLongDuration to MaxDuration days more than its first
LastEnds(startDate) ==
    {Null, startDate + DefaultPeriodLength - 1}
    \cup {startDate + d : d \in MinLongDuration..MaxDuration}

\* the start dates that follow day 0 by the given gaps
StartsOf(gaps) ==
    LET F[i \in 1..(Len(gaps) + 1)] ==
            IF i = 1 THEN 0 ELSE F[i - 1] + gaps[i - 1]
    IN  F

\* the start dates of a history of n periods, the first on day 0
StartSeqs(n) == {StartsOf(g) : g \in [1..(n - 1) -> Gaps]}

\* earlier periods last DefaultPeriodLength days, the last one varies
History(st, n, lastEnd) ==
    [i \in 1..n |->
        Period(st[i], IF i = n THEN lastEnd
                      ELSE st[i] + DefaultPeriodLength - 1)]

HistoriesOf(n) ==
    UNION {{History(st, n, e) : e \in LastEnds(st[n])} : st \in StartSeqs(n)}

Histories == {<<>>} \cup UNION {HistoriesOf(n) : n \in 1..MaxHistory}

CalcSettings ==
    {DefaultSettings, [DefaultSettings EXCEPT !.showSafeDays = TRUE]}

InitCalc ==
    /\ periods \in Histories
    /\ currentPeriod = NoPeriod
    /\ notes = <<>>
    /\ pillsTaken = <<>>
    /\ settings \in CalcSettings
    /\ stored = <<Data>>
    /\ editingPeriodIndex = NoIndex
    /\ isEditMode = FALSE
    /\ periodModal = "closed"
    /\ resizeTimeout = Null
    /\ timers = {}
    /\ isMobile = FALSE
    /\ today = Today0
    /\ events = generateCalendarEvents(periods, currentPeriod, notes,
                                       pillsTaken, settings, today)
    /\ pillStats = NoStats
    /\ lastOp = "init"

NextCalc ==
    \/ Tick
    \/ ResizeTrigger
    \/ ResizeFire

SpecCalc == InitCalc /\ [][NextCalc]_vars

-----------------------------------------------------------------------------
(* The medication engine over recorded histories: the page is loaded with a *)
(* persisted history, days pass and the page is loaded again.               *)

\* the key of a parsed blob, or the default when the key is missing
KeyOr(doc, key, value, default) == IF key \in doc.keys THEN value ELSE default

\* value || default for a number: null, undefined, NaN and 0 are falsy
OrDefault(value, default) ==
    IF value \in {Null, NaN, 0} THEN default ELSE value

\* the settings loadData builds: every number through || with its default;
\* the switches and the reminder time of the blobs of the model are booleans
\* and a non-empty text, which ?? and || keep
loadSettings(parsedData) ==
    IF "settings" \notin parsedData.keys
    THEN DefaultSettings
    ELSE [parsedData.settings EXCEPT
             !.cycleLength = OrDefault(@, DefaultCycleLength),
             !.periodLength = OrDefault(@, DefaultPeriodLength),
             !.pillPackDays = OrDefault(@, DefaultPackDays)]

\* loadData: the blob with a default for every missing key, or the fresh
\* aggregate when nothing is stored
loadData ==
    IF stored = <<>>
    THEN Doc(AllKeys, <<>>, NoPeriod, <<>>, <<>>, DefaultSettings)
    ELSE LET parsedData == stored[1]
         IN  Doc(AllKeys,
                 KeyOr(parsedData, "periods", parsedData.periods, <<>>),
                 KeyOr(parsedData, "currentPeriod", parsedData.currentPeriod, NoPeriod),
                 KeyOr(parsedData, "notes", parsedData.notes, <<>>),
                 KeyOr(parsedData, "pillsTaken", parsedData.pillsTaken, <<>>),
                 loadSettings(parsedData))

\* the statistics a freshly loaded page shows
LoadedStats(pills, st, now) ==
    IF st.pillTrackingEnabled
    THEN {[streak |-> calculatePillStreak(pills, st, now),
           compliance |-> complianceRate(pills, now, atMidnight)] :
              atMidnight \in BOOLEAN}
    ELSE {NoStats}

\* the page is loaded again: the constructor with what is persisted
Reload ==
    /\ periods' = loadData.periods
    /\ currentPeriod' = loadData.currentPeriod
    /\ notes' = loadData.notes
    /\ pillsTaken' = loadData.pillsTaken
    /\ settings' = loadData.settings
    /\ isMobile' \in BOOLEAN
    /\ resizeTimeout' = Null
    /\ timers' = {}
    /\ closePeriodModal
    /\ events' = generateCalendarEvents(loadData.periods, loadData.currentPeriod,
                                        loadData.notes, loadData.pillsTaken,
                                        loadData.settings, today)
    /\ pillStats' \in LoadedStats(loadData.pillsTaken, loadData.settings, today)
    /\ lastOp' = "reload"
    /\ UNCHANGED <<stored, today>>

\* the earliest recorded medication event of a history
FirstRecordDay == Today0 - PillSpan

PillRecord(date, taken) ==
    [date |-> date, taken |-> taken,
     time |-> IF taken THEN "21:00" ELSE "undefined",
     missedReason |-> IF taken THEN "undefined" ELSE "forgot"]

\* the pack lengths of the histories
PillPacks == {MinPackDays, DefaultPackDays}

\* where the days without a record start: around the end of a pack, or up
\* to MaxGapBack days before Today0
GapStarts ==
    UNION {(FirstRecordDay + pack - 1)..(FirstRecordDay + pack + 1) :
               pack \in PillPacks}
    \cup ((Today0 - MaxGapBack)..Today0)

\* how many days have no record: up to MaxShortGap + 1, or about a break week
GapLengths ==
    (0..(MaxShortGap + 1)) \cup ((BreakDays - 1)..(BreakDays + 1))

\* a record on every day from FirstRecordDay to lastDay but for the gap; the
\* first record and the first day of the gap may be a recorded miss
PillHistory(firstMissed, gapStart, gapLength, gapMissed, lastDay) ==
    LET InGap(d) == gapStart <= d /\ d < gapStart + gapLength
        Recorded(d) == ~InGap(d) \/ (gapMissed /\ d = gapStart)
        Taken(d) == ~InGap(d) /\ ~(firstMissed /\ d = FirstRecordDay)
        all == [k \in 1..(lastDay - FirstRecordDay + 1) |->
                   PillRecord(FirstRecordDay + k - 1,
                              Taken(FirstRecordDay + k - 1))]
        Kept(r) == Recorded(r.date)
    IN  SelectSeq(all, Kept)

\* a history of recorded misses only
MissedOnly == <<PillRecord(Today0 - 1, FALSE), PillRecord(Today0, FALSE)>>

PillHistories ==
    {<<>>, MissedOnly}
    \cup {PillHistory(fm, gs, gl, gm, ld) :
              fm \in BOOLEAN, gs \in GapStarts, gl \in GapLengths,
              gm \in BOOLEAN, ld \in (Today0 - 1)..MaxDay}

PillSettings ==
    {[DefaultSettings EXCEPT !.pillTrackingEnabled = TRUE, !.pillPackDays = pack] :
         pack \in PillPacks}
    \cup {[DefaultSettings EXCEPT !.pillTrackingEnabled = TRUE,
                                  !.showPillsOnCalendar = FALSE],
          DefaultSettings}

InitPills ==
    /\ periods = <<>>
    /\ currentPeriod = NoPeriod
    /\ notes = <<>>
    /\ pillsTaken \in PillHistories
    /\ settings \in PillSettings
    /\ stored = <<Data>>
    /\ editingPeriodIndex = NoIndex
    /\ isEditMode = FALSE
    /\ periodModal = "closed"
    /\ resizeTimeout = Null
    /\ timers = {}
    /\ isMobile = FALSE
    /\ today = Today0
    /\ events = generateCalendarEvents(periods, currentPeriod, notes,
                                       pillsTaken, settings, today)
    /\ pillStats \in LoadedStats(pillsTaken, settings, today)
    /\ lastOp = "init"

NextPills ==
    \/ Tick
    \/ Reload

SpecPills == InitPills /\ [][NextPills]_vars

-----------------------------------------------------------------------------
(* Loading: the page is opened over a persisted blob, notes and settings    *)
(* are edited, the page is loaded again.                                    *)

\* what localStorage can hold when the page is opened: nothing, an aggregate
\* saved by a handler, the same with the null saveData writes for a cycle
\* length that is no number, and documents importData saved as they were:
\* without the notes, without the settings, with a cycle length above the
\* range
LoadBlobs ==
    {<<>>, <<FullDoc>>, <<PartialDoc>>,
     <<[FullDoc EXCEPT !.settings.cycleLength = MaxCycleLength - 1,
                       !.settings.showSafeDays = TRUE,
                       !.notes = <<[date |-> 0, symptoms |-> {"cramps"},
                                    notes |-> ""]>>]>>,
     <<[FullDoc EXCEPT !.settings.cycleLength = Null]>>,
     <<[FullDoc EXCEPT !.keys = @ \ {"settings"}]>>,
     <<[FullDoc EXCEPT !.settings.cycleLength = MaxCycleLength + 1]>>}

InitLoad ==
    /\ stored \in LoadBlobs
    /\ periods = loadData.periods
    /\ currentPeriod = loadData.currentPeriod
    /\ notes = loadData.notes
    /\ pillsTaken = loadData.pillsTaken
    /\ settings = loadData.settings
    /\ editingPeriodIndex = NoIndex
    /\ isEditMode = FALSE
    /\ periodModal = "closed"
    /\ resizeTimeout = Null
    /\ timers = {}
    /\ isMobile = FALSE
    /\ today = Today0
    /\ events = generateCalendarEvents(periods, currentPeriod, notes,
                                       pillsTaken, settings, today)
    /\ pillStats \in LoadedStats(pillsTaken, settings, today)
    /\ lastOp = "init"

NextLoad ==
    \/ saveNote
    \/ saveSettings
    \/ Reload

SpecLoad == InitLoad /\ [][NextLoad]_vars

-----------------------------------------------------------------------------
(* The debounce of the resize handler: notes are edited while the window is *)
(* resized. A pending timer fires once its 250 ms have passed.              *)

NextDebounce ==
    \/ saveNote
    \/ deleteNote
    \/ ResizeTrigger
    \/ ResizeFire

SpecDebounce == Init /\ [][NextDebounce]_vars /\ WF_vars(ResizeFire)

-----------------------------------------------------------------------------
(* The overlay over persisted aggregates with every choice of the toggles:  *)
(* the page is loaded, days pass, the window is resized, the page reloaded. *)

\* the five switches that gate overlay entries, each on its own
OverlayToggles ==
    [showNextPeriodPrediction : BOOLEAN, showOvulation : BOOLEAN,
     showSafeDays : BOOLEAN, pillTrackingEnabled : BOOLEAN,
     showPillsOnCalendar : BOOLEAN]

WithToggles(st, t) ==
    [st EXCEPT !.showNextPeriodPrediction = t.showNextPeriodPrediction,
               !.showOvulation = t.showOvulation,
               !.showSafeDays = t.showSafeDays,
               !.pillTrackingEnabled = t.pillTrackingEnabled,
               !.showPillsOnCalendar = t.showPillsOnCalendar]

AllOn == [k \in DOMAIN DefaultSettings |-> TRUE]

\* every choice of the switches, and all on with the longest period length
OverlaySettings ==
    {WithToggles(DefaultSettings, t) : t \in OverlayToggles}
    \cup {[WithToggles(DefaultSettings, AllOn)
              EXCEPT !.periodLength = MaxPeriodLength]}

\* nothing, one period, or two periods
OverlayHistories == {<<>>} \cup HistoriesOf(1) \cup HistoriesOf(2)

\* besides the periods: nothing, or a period open since DefaultPeriodLength
\* days, three notes of which the first has neither a symptom nor a text,
\* and two medication records
OverlayNotes ==
    <<[date |-> 0, symptoms |-> {}, notes |-> ""],
      [date |-> 1, symptoms |-> {"cramps"}, notes |-> ""],
      [date |-> 2, symptoms |-> {}, notes |-> "text"]>>

OverlayPills == <<PillRecord(Today0 - 3, TRUE), PillRecord(Today0 - 1, FALSE)>>

OverlayExtras ==
    {[currentPeriod |-> NoPeriod, notes |-> <<>>, pillsTaken |-> <<>>],
     [currentPeriod |-> Period(Today0 - DefaultPeriodLength, Null),
      notes |-> OverlayNotes,
      pillsTaken |-> OverlayPills]}

InitOverlay ==
    /\ periods \in OverlayHistories
    /\ \E x \in OverlayExtras :
          /\ currentPeriod = x.currentPeriod
          /\ notes = x.notes
          /\ pillsTaken = x.pillsTaken
    /\ settings \in OverlaySettings
    /\ stored = <<Data>>
    /\ editingPeriodIndex = NoIndex
    /\ isEditMode = FALSE
    /\ periodModal = "closed"
    /\ resizeTimeout = Null
    /\ timers = {}
    /\ isMobile = FALSE
    /\ today = Today0
    /\ events = generateCalendarEvents(periods, currentPeriod, notes,
                                       pillsTaken, settings, today)
    /\ pillStats \in LoadedStats(pillsTaken, settings, today)
    /\ lastOp = "init"

NextOverlay ==
    \/ Tick
    \/ ResizeTrigger
    \/ ResizeFire
    \/ Reload

SpecOverlay == InitOverlay /\ [][NextOverlay]_vars

-----------------------------------------------------------------------------
(* Adding past periods to a persisted aggregate: the page is loaded, the    *)
(* period modal is opened in add mode, submitted or cancelled.              *)

\* the periods found: none, or one period that ends on some day (an edit
\* can put the end before the start) or has no end date
AddHistories ==
    {<<>>}
    \cup {<<Period(s, e)>> : s \in Days, e \in Days \cup {Null}}

InitAdd ==
    /\ periods \in AddHistories
    /\ currentPeriod = NoPeriod
    /\ notes = <<>>
    /\ pillsTaken = <<>>
    /\ settings = DefaultSettings
    /\ stored = <<Data>>
    /\ editingPeriodIndex = NoIndex
    /\ isEditMode = FALSE
    /\ periodModal = "closed"
    /\ resizeTimeout = Null
    /\ timers = {}
    /\ isMobile = FALSE
    /\ today = Today0
    /\ events = generateCalendarEvents(periods, currentPeriod, notes,
                                       pillsTaken, settings, today)
    /\ pillStats = NoStats
    /\ lastOp = "init"

NextAdd ==
    \/ ClickAddPeriod
    \/ CancelPeriodModal
    \/ addCompletedPeriod

SpecAdd == InitAdd /\ [][NextAdd]_vars

-----------------------------------------------------------------------------
(* The edit dialog over persisted period histories: an entry is clicked,    *)
(* the period is saved or deleted, and an import may complete in between.   *)

NextEdit ==
    \/ ClickPeriodEvent
    \/ CancelPeriodModal
    \/ savePeriodChanges
    \/ deletePeriod
    \/ importDataWhileEditing

SpecEdit == InitAdd /\ [][NextEdit]_vars

-----------------------------------------------------------------------------
(* Predicates used by the properties *)

SortedByStart(ps) ==
    \A i \in 1..Len(ps) : \A j \in i..Len(ps) :
        ps[i].startDate <= ps[j].startDate

\* the open periods the aggregate holds, in periods or as currentPeriod
OpenPeriods ==
    Cardinality({i \in 1..Len(periods) : periods[i].endDate = Null})
    + (IF currentPeriod = NoPeriod THEN 0 ELSE 1)

DistinctDates(s) ==
    \A i \in 1..Len(s) : \A j \in 1..Len(s) :
        i # j => s[i].date # s[j].date

\* the cycle length the engine uses: the average, 28 when the average is 0
EngineCycleLength == CycleLengthOrDefault(periods)

LastPeriod == periods[Len(periods)]

-----------------------------------------------------------------------------
(* Invariants of the aggregate *)

\* C1: after any sequence of period operations, also after an insertion by
\* end-period or by an edit, periods is sorted ascending by startDate.
C1_PeriodsSorted == SortedByStart(periods)

\* C2: after any sequence of period operations every period stored in
\* periods has a non-null endDate.
C2_PeriodsClosed ==
    \A i \in 1..Len(periods) : periods[i].endDate # Null

\* C3: at most one open period exists at any time: currentPeriod is null or
\* a period with null endDate that is no element of periods, and a start
\* request issued while currentPeriod is non-null leaves the aggregate (and
\* its blob) unchanged.
C3_AtMostOneOpenPeriod ==
    /\ [](/\ OpenPeriods <= 1
          /\ currentPeriod # NoPeriod => currentPeriod.endDate = Null
          /\ currentPeriod # NoPeriod =>
                 \A i \in 1..Len(periods) : periods[i] # currentPeriod)
    /\ [][(currentPeriod # NoPeriod /\ (ClickStartPeriod \/ confirmStartPeriod))
              => UNCHANGED <<dataVars, stored>>]_vars

\* C4: from the empty aggregate, after any sequence of saveNote, deleteNote,
\* savePill and deletePill, notes holds at most one entry per date and so
\* does pillsTaken.
C4_OneEntryPerDate == DistinctDates(notes) /\ DistinctDates(pillsTaken)

\* a medication event was saved over the one recorded for its date, beside
\* a note
C4_Witness ==
    /\ lastOp = "savePill:replaced"
    /\ Len(pillsTaken) = 1
    /\ Len(notes) = 1

\* C5: once a mutating operation has completed, the persisted blob equals
\* the whole in-memory aggregate in every state between operations.
C5_BlobEqualsAggregate == stored # <<>> => stored = <<Data>>

-----------------------------------------------------------------------------
(* Cycle analytics *)

\* the differences between consecutive start dates, in days
StartDeltas(ps) ==
    [i \in 1..(Len(ps) - 1) |-> ps[i + 1].startDate - ps[i].startDate]

SeqSum(s) ==
    LET F[i \in 0..Len(s)] == IF i = 0 THEN 0 ELSE F[i - 1] + s[i]
    IN  F[Len(s)]

\* the counts of predictions asked for
Counts == (0..MaxCount) \cup {PredictionCount}

\* C6: averageCycleLength is 0 with fewer than 2 periods; over 2 or more
\* periods sorted by startDate it is the mean of the differences between
\* consecutive start dates, rounded to the nearest integer: it lies within
\* half a day of the mean.
C6_AverageCycleLength ==
    LET n == Len(periods)
        avg == getAverageCycleLength(periods)
        total == SeqSum(StartDeltas(periods))
    IN  /\ n < 2 => avg = 0
        /\ (n >= 2 /\ SortedByStart(periods)) =>
               Abs(2 * (n - 1) * avg - 2 * total) <= n - 1

\* redrawn after a resize: four sorted periods whose mean difference is no integer and no half: it
\* is rounded up to a whole day
C6_Witness ==
    /\ isMobile
    /\ Len(periods) = 4
    /\ SortedByStart(periods)
    /\ SeqSum(StartDeltas(periods)) = 3 * DefaultCycleLength + 2
    /\ getAverageCycleLength(periods) = DefaultCycleLength + 1

\* C7: for every period start s and the cycle length L the engine uses, the
\* ovulation date is s + (L - 14), and there is none when L - 14 <= 0; the
\* overlay marks exactly these dates.
C7_OvulationDate ==
    LET L == EngineCycleLength
        expected(s) == IF L - 14 <= 0 THEN Null ELSE s + (L - 14)
    IN  /\ \A i \in 1..Len(periods) :
               calculateOvulationDate(periods, periods[i].startDate)
                   = expected(periods[i].startDate)
        /\ settings.showOvulation =>
               \A i \in 1..Len(periods) :
                   (periods[i].endDate # Null /\ L - 14 > 0)
                   <=> (\E e \in Range(events) :
                            /\ e.kind = "ovulation"
                            /\ e.ref = i - 1
                            /\ e.start = periods[i].startDate + (L - 14))
        /\ \A e \in Range(events) :
               e.kind = "ovulation" =>
                   /\ L - 14 > 0
                   /\ e.start = periods[e.ref + 1].startDate + (L - 14)

\* redrawn after a resize, a cycle of 15 days: the overlay marks the day after each period start
C7_Witness ==
    /\ isMobile
    /\ getAverageCycleLength(periods) = 15
    /\ \E e \in Range(events) :
           /\ e.kind = "ovulation"
           /\ e.start = periods[e.ref + 1].startDate + 1

\* C8 as stated: with 2 or more periods futurePeriods(count) has count dates,
\* the k-th being the last start date + k * averageCycleLength, and
\* nextPeriodDate is the first of them; with fewer than 2 periods there are
\* no predictions and no nextPeriodDate.
C8_FuturePeriodsByAverage ==
    LET n == Len(periods)
        avg == getAverageCycleLength(periods)
    IN  /\ n >= 2 =>
               /\ \A count \in Counts :
                      LET fut == calculateFuturePeriods(periods, count)
                      IN  /\ Len(fut) = count
                          /\ \A k \in 1..count :
                                 fut[k] = LastPeriod.startDate + k * avg
               /\ Len(calculateFuturePeriods(periods, 1)) = 1
               /\ calculateNextPeriodDate(periods)
                      = LastPeriod.startDate + avg
        /\ n < 2 =>
               /\ \A count \in Counts :
                      calculateFuturePeriods(periods, count) = <<>>
               /\ calculateNextPeriodDate(periods) = Null

\* C8: with 2 or more periods the last of which has an end date,
\* futurePeriods(count) has count dates, the k-th being the last start date
\* + k * L, where L is averageCycleLength, or 28 when that is 0, and
\* nextPeriodDate is the first of them; with fewer than 2 periods, or with a
\* last period that has no end date, there are no predictions and no
\* nextPeriodDate.
C8_FuturePeriods ==
    LET n == Len(periods)
        avg == getAverageCycleLength(periods)
        L == IF avg = 0 THEN 28 ELSE avg
        predictable == n >= 2 /\ LastPeriod.endDate # Null
    IN  /\ predictable =>
               /\ \A count \in Counts :
                      LET fut == calculateFuturePeriods(periods, count)
                      IN  /\ Len(fut) = count
                          /\ \A k \in 1..count :
                                 fut[k] = LastPeriod.startDate + k * L
               /\ calculateNextPeriodDate(periods)
                      = calculateFuturePeriods(periods, 1)[1]
        /\ ~predictable =>
               /\ \A count \in Counts :
                      calculateFuturePeriods(periods, count) = <<>>
               /\ calculateNextPeriodDate(periods) = Null

\* two periods that start on the same day: the average is 0 and the overlay,
\* redrawn after a resize, shows the tenth prediction 280 days after the last start
C8_Witness ==
    /\ isMobile
    /\ Len(periods) >= 2
    /\ LastPeriod.endDate # Null
    /\ getAverageCycleLength(periods) = 0
    /\ \E e \in Range(events) :
           /\ e.kind = "period-prediction"
           /\ e.ref = PredictionCount
           /\ e.start = LastPeriod.startDate + PredictionCount * 28

\* C9: with 2 or more periods and next = nextPeriodDate, ovulation = next -
\* 14, fertileStart = ovulation - 5, fertileEnd = ovulation + 1, safeDayRanges
\* is range (a) [lastPeriod.endDate + 1, fertileStart - 1] if it is not empty,
\* then range (b) [fertileEnd + 1, next - 1] if it is not empty; no range
\* ends before it starts; there is no range with fewer than 2 periods.
C9_SafeDayRanges ==
    LET n == Len(periods)
        next == calculateNextPeriodDate(periods)
        ovulation == next - 14
        fertileStart == ovulation - 5
        fertileEnd == ovulation + 1
        a == [start |-> LastPeriod.endDate + 1, end |-> fertileStart - 1]
        b == [start |-> fertileEnd + 1, end |-> next - 1]
        nonEmpty(r) == r.start <= r.end
        ranges == calculateSafeDays(periods)
    IN  /\ (n >= 2 /\ next # Null) =>
               ranges = (IF nonEmpty(a) THEN <<a>> ELSE <<>>)
                        \o (IF nonEmpty(b) THEN <<b>> ELSE <<>>)
        /\ \A i \in 1..Len(ranges) : nonEmpty(ranges[i])
        /\ n < 2 => ranges = <<>>

\* redrawn after a resize: both ranges are drawn, the first of a single day
C9_Witness ==
    /\ isMobile
    /\ settings.showSafeDays
    /\ Len(calculateSafeDays(periods)) = 2
    /\ calculateSafeDays(periods)[1].start = calculateSafeDays(periods)[1].end
    /\ Cardinality({e \in Range(events) : e.kind = "safe-days"}) = 2

\* the days of the recorded periods that have an end date
RecordedDays ==
    UNION {periods[i].startDate..periods[i].endDate :
               i \in {j \in 1..Len(periods) : periods[j].endDate # Null}}

\* the days of the predicted periods
PredictedDays ==
    LET fut == calculateFuturePeriods(periods, PredictionCount)
    IN  UNION {fut[k]..(fut[k] + settings.periodLength - 1) :
                   k \in 1..Len(fut)}

\* the fertile window: 5 days before to 1 day after the predicted ovulation
FertileDays ==
    LET next == calculateNextPeriodDate(periods)
    IN  IF next = Null THEN {}
        ELSE (next - 14 - 5)..(next - 14 + 1)

\* C10: every day of a safe-day range on the overlay lies outside the fertile
\* window, outside every recorded period and outside every predicted period.
C10_SafeDaysAreSafe ==
    \A e \in Range(events) :
        e.kind = "safe-days" =>
            \A d \in e.start..(e.end - 1) :
                /\ d \notin FertileDays
                /\ d \notin RecordedDays
                /\ d \notin PredictedDays


-----------------------------------------------------------------------------
(* The medication schedule and its statistics *)

\* the scheduled entries the generator yields for the aggregate today
Schedule == Range(generatePillScheduleEvents(pillsTaken, settings, today))

RecordedOn(d) == \E i \in 1..Len(pillsTaken) : pillsTaken[i].date = d

\* C11: with medication tracking shown on the calendar, a scheduled entry
\* exists for the day d exactly when d is after the anchor (the earliest
\* record) and not after today + 90, no record exists on d, and
\* ((d - anchor) mod (packDays + 7)) + 1 is at most packDays; the entry carries
\* that day of the cycle and is tagged past exactly when d is before today;
\* without any record there is no entry.
C11_VirtualSchedule ==
    (settings.pillTrackingEnabled /\ settings.showPillsOnCalendar) =>
        LET schedule == Schedule
            entryDays == {e.start : e \in schedule}
            recordDays == {pillsTaken[i].date : i \in 1..Len(pillsTaken)}
            anchor == FirstPillDate(pillsTaken)
            packDays == settings.pillPackDays
            dayInCycle(d) == ((d - anchor) % (packDays + 7)) + 1
        IN  IF pillsTaken = <<>> THEN schedule = {}
            ELSE
              /\ \A d \in (anchor - 1)..(today + 92) :
                    d \in entryDays
                    <=> /\ anchor < d
                        /\ d <= today + 90
                        /\ d \notin recordDays
                        /\ dayInCycle(d) <= packDays
              /\ entryDays \subseteq (anchor + 1)..(today + 90)
              /\ Cardinality(entryDays) = Cardinality(schedule)
              /\ \A e \in schedule :
                    /\ e.ref = dayInCycle(e.start)
                    /\ e.type = "pill-past" <=> e.start < today
                    /\ e.type \in {"pill-past", "pill-future"}

\* after a reload the calendar shows the schedule: the last day of a pack
\* in the past without a record, no entry on the day after it, the first of
\* the break, and entries up to today + 90
C11_Witness ==
    /\ lastOp = "reload"
    /\ settings.pillTrackingEnabled /\ settings.showPillsOnCalendar
    /\ pillsTaken # <<>>
    /\ RecordedOn(today)
    /\ LET schedule == Schedule
           entryDays == {e.start : e \in schedule}
       IN  /\ schedule \subseteq Range(events)
           /\ \E e \in schedule :
                 /\ e.type = "pill-past"
                 /\ e.ref = settings.pillPackDays
                 /\ ~RecordedOn(e.start + 1)
                 /\ (e.start + 1) \notin entryDays
           /\ \E e \in schedule : e.type = "pill-future" /\ e.start >= today + 84

\* the dates with a taken record
TakenDays ==
    {pillsTaken[i].date : i \in {j \in 1..Len(pillsTaken) : pillsTaken[j].taken}}

\* the day the backward walk starts on: today if today has a taken record
StreakStart == IF today \in TakenDays THEN today ELSE today - 1

\* taken records on every date 2024-03-01 .. 2024-03-10, as days 1 .. 10
MarchFirstToTenth == [k \in 1..10 |-> PillRecord(k, TRUE)]

TrackingPack21 ==
    [DefaultSettings EXCEPT !.pillTrackingEnabled = TRUE, !.pillPackDays = 21]

\* C12: with medication tracking on, when the dates with a taken record form
\* one unbroken run of consecutive days ending at S (today if today has a
\* taken record, else yesterday) the streak is the number of days of the run:
\* 10 for 2024-03-01 .. 2024-03-10 with today 2024-03-10 and a pack of 21; the
\* streak is 0 for an empty history and when every record is a miss.
C12_StreakOfRun ==
    /\ calculatePillStreak(MarchFirstToTenth, TrackingPack21, 10) = 10
    /\ settings.pillTrackingEnabled =>
          LET takenDays == TakenDays
              streak == calculatePillStreak(pillsTaken, settings, today)
          IN  /\ (takenDays # {} /\ \E a \in takenDays : takenDays = a..StreakStart)
                    => streak = Cardinality(takenDays)
              /\ takenDays = {} => streak = 0

\* after a reload the card shows the streak of a run that ends yesterday and
\* starts the day after a recorded miss
C12_Witness ==
    /\ lastOp = "reload"
    /\ settings.pillTrackingEnabled
    /\ LET takenDays == TakenDays
       IN  /\ takenDays = (FirstRecordDay + 1)..(today - 1)
           /\ RecordedOn(FirstRecordDay)
           /\ pillStats.streak = Cardinality(takenDays)
           /\ pillStats.streak >= 10

\* taken records on 2024-03-01 .. 2024-03-10 but for 2024-03-05
MarchWithoutFifth ==
    LET NotFifth(r) == r.date # 5 IN SelectSeq(MarchFirstToTenth, NotFifth)

\* the days after the first record and up to the start of the walk that have
\* no taken record
MissingDays ==
    IF pillsTaken = <<>> THEN {}
    ELSE {d \in (FirstPillDate(pillsTaken) + 1)..StreakStart : d \notin TakenDays}

LastMissingDay == CHOOSE m \in MissingDays : \A d \in MissingDays : d <= m

\* is the day one of the break that follows a pack
InBreakWeek(d) ==
    ((d - FirstPillDate(pillsTaken)) % (settings.pillPackDays + 7)) + 1
        > settings.pillPackDays

C14_BreakWeekTolerated ==
    (/\ settings.pillTrackingEnabled
     /\ MissingDays # {}
     /\ \A m \in MissingDays : InBreakWeek(m))
        => calculatePillStreak(pillsTaken, settings, today)
               = Cardinality({d \in TakenDays : d <= StreakStart})

\* the records of the trailing window of 30 days that ends now: a record
\* stands at 00:00 of its date, so the date 30 days back is in the window
\* only when the clock reads 00:00
RecordsInWindow(atMidnight) ==
    LET from == IF atMidnight THEN today - 30 ELSE today - 29
    IN  {i \in 1..Len(pillsTaken) :
            from <= pillsTaken[i].date /\ pillsTaken[i].date <= today}

\* C15: the compliance rate is the number of taken records in the trailing
\* window of 30 days ending today divided by the number of all records in
\* the window, as a whole percentage from 0 to 100 (the nearest one), and 100
\* when no record falls in the window.
C15_ComplianceRate ==
    \A atMidnight \in BOOLEAN :
        LET inWindow == RecordsInWindow(atMidnight)
            total == Cardinality(inWindow)
            taken == Cardinality({i \in inWindow : pillsTaken[i].taken})
            rate == complianceRate(pillsTaken, today, atMidnight)
        IN  /\ rate \in 0..100
            /\ IF total = 0 THEN rate = 100
               ELSE /\ (2 * rate - 1) * total <= 200 * taken
                    /\ 200 * taken < (2 * rate + 1) * total

\* after a reload the card shows a rate that was rounded: the window holds a
\* recorded miss and taken records, and the recorded miss of 30 days ago is
\* left out
C15_Witness ==
    /\ lastOp = "reload"
    /\ settings.pillTrackingEnabled
    /\ \E i \in 1..Len(pillsTaken) :
          pillsTaken[i].date = today - 30 /\ ~pillsTaken[i].taken
    /\ \E i \in 1..Len(pillsTaken) : pillsTaken[i].date > today
    /\ LET inWindow == RecordsInWindow(FALSE)
           total == Cardinality(inWindow)
           taken == Cardinality({i \in inWindow : pillsTaken[i].taken})
       IN  /\ taken < total
           /\ (100 * taken) % total # 0
           /\ pillStats.compliance = complianceRate(pillsTaken, today, FALSE)
           /\ pillStats.compliance # complianceRate(pillsTaken, today, TRUE)

-----------------------------------------------------------------------------
(* The overlay *)

\* the overlay the synthesis yields for the aggregate today
Overlay ==
    generateCalendarEvents(periods, currentPeriod, notes, pillsTaken,
                           settings, today)

HasEntry(list, kind, ref) ==
    \E k \in 1..Len(list) : list[k].kind = kind /\ list[k].ref = ref

\* the gates of an overlay list, and the entries that need no gate
Gated(list) ==
    /\ \A k \in 1..Len(list) :
          /\ list[k].kind = "ovulation" => settings.showOvulation
          /\ list[k].kind \in {"period-prediction", "period-prediction-clickable"}
                => settings.showNextPeriodPrediction
          /\ list[k].kind = "safe-days" => settings.showSafeDays
          /\ list[k].kind \in {"pill", "pill-schedule"}
                => (settings.pillTrackingEnabled /\ settings.showPillsOnCalendar)
    /\ \A i \in 1..Len(periods) :
          periods[i].endDate # Null =>
              /\ HasEntry(list, "period-bg", i - 1)
              /\ HasEntry(list, "period-click", i - 1)
    /\ currentPeriod # NoPeriod =>
          /\ HasEntry(list, "current-period-bg", Null)
          /\ HasEntry(list, "current-period-click", Null)
    /\ \A j \in 1..Len(notes) :
          HasEntry(list, "note", j - 1)
              <=> (notes[j].symptoms # {} \/ notes[j].notes # "")

\* C16: in every overlay list an ovulation entry appears only if
\* showOvulation is on, a prediction entry only if showNextPeriodPrediction is
\* on, a safe-days entry only if showSafeDays is on, a medication entry,
\* recorded or scheduled, only if pillTrackingEnabled and showPillsOnCalendar
\* are on; closed periods, the open period and notes have their entries
\* whatever the toggles are, a note exactly when it has a symptom or a text.
C16_OverlayGating ==
    /\ Gated(events)
    /\ Gated(Overlay)

\* after a reload with predictions on and everything else off: predictions,
\* periods, the open period and two of three notes are on the calendar, and
\* neither the ovulation the first period has nor the recorded medication
C16_Witness ==
    /\ lastOp = "reload"
    /\ events = Overlay
    /\ settings.showNextPeriodPrediction
    /\ ~settings.showOvulation /\ ~settings.showSafeDays
    /\ settings.pillTrackingEnabled /\ ~settings.showPillsOnCalendar
    /\ Len(periods) = 2 /\ periods[2].endDate # Null
    /\ calculateOvulationDate(periods, periods[1].startDate) # Null
    /\ calculateSafeDays(periods) # <<>>
    /\ pillsTaken # <<>>
    /\ currentPeriod # NoPeriod
    /\ Len(notes) = 3
    /\ HasEntry(events, "period-prediction", 1)
    /\ HasEntry(events, "period-click", 1)
    /\ HasEntry(events, "note", 1)
    /\ ~HasEntry(events, "note", 0)
    /\ \A k \in 1..Len(events) :
          events[k].kind \notin {"ovulation", "safe-days", "pill", "pill-schedule"}

\* the entries of a list of the given kinds
EntriesOf(list, kinds) == {list[k] : k \in {j \in 1..Len(list) : list[j].kind \in kinds}}

\* C17: every range entry of the overlay ends, exclusively, on the day after
\* the last day of its range: a closed period [s, e] has entries from s to
\* e + 1, the open period from its start to the day after the later of today
\* and its expected last day, a prediction at p with period length n from p
\* to p + n, a safe-day range [a, b] from a to b + 1.
C17_ExclusiveEnd ==
    LET list == Overlay
        n == settings.periodLength
        fut == calculateFuturePeriods(periods, PredictionCount)
        ranges == calculateSafeDays(periods)
    IN  /\ \A e \in EntriesOf(list, {"period-bg", "period-click"}) :
              /\ e.start = periods[e.ref + 1].startDate
              /\ e.end = periods[e.ref + 1].endDate + 1
        /\ \A e \in EntriesOf(list, {"current-period-bg", "current-period-click"}) :
              /\ e.start = currentPeriod.startDate
              /\ e.end = (IF today > currentPeriod.startDate + n - 1
                          THEN today ELSE currentPeriod.startDate + n - 1) + 1
        /\ \A e \in EntriesOf(list, {"period-prediction", "period-prediction-clickable"}) :
              /\ e.start = fut[e.ref]
              /\ e.end = e.start + n
        /\ \A e \in EntriesOf(list, {"safe-days"}) :
              /\ e.start = ranges[e.ref + 1].start
              /\ e.end = ranges[e.ref + 1].end + 1
        /\ \A k \in 1..Len(list) :
              list[k].kind \in {"ovulation", "note", "pill", "pill-schedule"}
                  => list[k].end = Null

\* after a reload the calendar holds range entries of all four kinds: the
\* open period lasts to today, past its expected last day
C17_Witness ==
    /\ lastOp = "reload"
    /\ events = Overlay
    /\ EntriesOf(events, {"period-click"}) # {}
    /\ EntriesOf(events, {"period-prediction"}) # {}
    /\ EntriesOf(events, {"safe-days"}) # {}
    /\ \E e \in EntriesOf(events, {"current-period-bg"}) :
          e.end = today + 1 /\ today > currentPeriod.startDate + settings.periodLength - 1

-----------------------------------------------------------------------------
(* Adding a past period *)

\* the outcomes of the add form
RejectedOutcomes ==
    {"addCompletedPeriod:no-start", "addCompletedPeriod:no-end",
     "addCompletedPeriod:end-before-start"}

FlaggedOutcomes ==
    {"addCompletedPeriod:overlap-declined", "addCompletedPeriod:overlap-added"}

AddOutcomes ==
    RejectedOutcomes \cup FlaggedOutcomes \cup {"addCompletedPeriod:added"}

\* what lastOp reads after a submit of the add form, and the outcome and
\* the dates it stands for
AddForms == AddOutcomes \X DateInputs \X DateInputs

AddResults == {Outcome(x[1], x[2], x[3]) : x \in AddForms}

FormOf ==
    [r \in AddResults |->
        LET x == CHOOSE y \in AddForms : Outcome(y[1], y[2], y[3]) = r
        IN  [outcome |-> x[1], ns |-> x[2], ne |-> x[3]]]

\* the step is a submit of the add form
AddStep ==
    /\ periodModal = "add"
    /\ ~isEditMode
    /\ lastOp' \in AddResults

\* some closed period [s, e] of periods shares a day with [ns, ne]
Intersects(ns, ne) ==
    \E i \in 1..Len(periods) :
        /\ periods[i].endDate # Null
        /\ ns <= periods[i].endDate
        /\ ne >= periods[i].startDate

\* the step leaves the aggregate and the blob as they are
NothingMutated == UNCHANGED <<periods, currentPeriod, notes, pillsTaken,
                              settings, stored>>

\* the step puts [ns, ne] into periods, keeps every period that was there,
\* leaves periods sorted by start date, and persists the aggregate
PeriodAdded(ns, ne) ==
    /\ Len(periods') = Len(periods) + 1
    /\ \E k \in 1..Len(periods') :
          /\ periods'[k] = Period(ns, ne)
          /\ Splice(periods', k - 1) = SortPeriods(periods)
    /\ SortedByStart(periods')
    /\ UNCHANGED <<currentPeriod, notes, pillsTaken, settings>>
    /\ stored' = <<Data'>>

\* C18: adding the past period [ns, ne] is flagged as overlapping exactly
\* when some closed period [s, e] of periods has ns <= e and ne >= s; adding
\* 2024-01-10 .. 2024-01-15 to 2024-01-12 .. 2024-01-20 is flagged.
C18_OverlapFlag ==
    /\ [](HasOverlap(<<Period(12, 20)>>, 10, 15))
    /\ [][AddStep =>
            LET f == FormOf[lastOp']
            IN  f.outcome \notin RejectedOutcomes
                    => (f.outcome \in FlaggedOutcomes <=> Intersects(f.ns, f.ne))]_vars

\* the add of a period that only touches the last day of a closed period
\* was flagged and declined
C18_Witness ==
    /\ periodModal = "add"
    /\ \E ns \in Days, ne \in Days :
          /\ lastOp = Outcome("addCompletedPeriod:overlap-declined", ns, ne)
          /\ Len(periods) = 1
          /\ periods[1].endDate = ns
          /\ periods[1].startDate < ns
          /\ ne > ns

\* C19: an added past period that is flagged as overlapping is added exactly
\* when the user confirms: when the user declines, the aggregate and the
\* persisted blob stay as they are; when the user confirms, the existing
\* periods and the new one are in periods and periods is sorted by
\* startDate.
C19_OverlapConfirm ==
    [][AddStep =>
          LET f == FormOf[lastOp']
          IN  /\ f.outcome = "addCompletedPeriod:overlap-declined"
                    => NothingMutated
              /\ f.outcome = "addCompletedPeriod:overlap-added"
                    => PeriodAdded(f.ns, f.ne)]_vars

\* an overlapping period was confirmed and sorted in before the period that
\* was there
C19_Witness ==
    \E ns \in Days, ne \in Days :
        /\ lastOp = Outcome("addCompletedPeriod:overlap-added", ns, ne)
        /\ Len(periods) = 2
        /\ periods[1] = Period(ns, ne)
        /\ periods[2].startDate > ns
        /\ periods[2].endDate # Null
        /\ ne >= periods[2].startDate
        /\ stored = <<Data>>

-----------------------------------------------------------------------------
(* Rejected requests *)

\* no entry of the given aggregate has an empty date
DatesPresent(doc) ==
    /\ \A i \in 1..Len(doc.periods) : doc.periods[i].startDate # Empty
    /\ doc.currentPeriod.startDate # Empty
    /\ \A i \in 1..Len(doc.notes) : doc.notes[i].date # Empty
    /\ \A i \in 1..Len(doc.pillsTaken) : doc.pillsTaken[i].date # Empty

\* C21: every operation that records a dated entry rejects a request whose
\* required date is missing, so no period, note or medication event with an
\* empty date is ever stored, in the aggregate or in the persisted blob.
C21_NoEmptyDate ==
    /\ DatesPresent(Data)
    /\ stored # <<>> => DatesPresent(stored[1])

\* C22: saveSettings applies the submitted values only when cycleLength is in
\* 21..40, periodLength in 1..cycleLength - 1 and packDays in 14..28, and
\* rejects the request otherwise, so these ranges hold for settings after
\* any sequence of saveSettings from the defaults.
C22_SettingsInRange ==
    /\ settings.cycleLength \in 21..40
    /\ settings.periodLength \in 1..(settings.cycleLength - 1)
    /\ settings.pillPackDays \in 14..28

\* the step removes a period, the open period, a note or a medication event
\* without putting anything in its place
EntryRemoved ==
    \/ Len(periods') < Len(periods)
    \/ Len(notes') < Len(notes)
    \/ Len(pillsTaken') < Len(pillsTaken)
    \/ /\ currentPeriod # NoPeriod
       /\ currentPeriod' = NoPeriod
       /\ Len(periods') = Len(periods)

\* C23: no period, note or medication event is deleted and no full reset is
\* performed without a preceding explicit confirmation, and when the user
\* declines the confirmation the aggregate and the blob stay as they are.
C23_DeleteNeedsConfirm ==
    [][/\ EntryRemoved => lastOp' \in ConfirmedOutcomes
       /\ (lastOp' \in DeclinedOutcomes /\ lastOp' # lastOp) => NothingMutated]_vars

-----------------------------------------------------------------------------
(* Import, export, load *)

\* C24: an import of a document that fails to parse leaves the aggregate and
\* the persisted blob as they were; an import of a document that parses
\* replaces the whole aggregate with the document and persists it.
C24_ImportReplaces ==
    [][/\ (lastOp' = "importData:parse-error" /\ lastOp' # lastOp)
             => NothingMutated
       /\ (lastOp' = "importData:imported")
             => \E file \in ImportFiles :
                   /\ file.parses
                   /\ Data' = file.doc
                   /\ stored' = <<file.doc>>]_vars


\* an aggregate of the documented shape: every date present, every number
\* of the settings in its range
ValidAggregate(doc) ==
    /\ DatesPresent(doc)
    /\ doc.settings.cycleLength \in MinCycleLength..MaxCycleLength
    /\ doc.settings.periodLength \in MinPeriodLength..MaxPeriodLength
    /\ doc.settings.pillPackDays \in MinPackDays..MaxPackDays

\* an import of the file the export of this state wrote
ImportsOwnExport ==
    /\ lastOp = "exportData:downloaded"
    /\ lastOp' = "importData:imported"
    /\ stored' = <<Stringify(Data)>>

FreshAggregate == Doc(AllKeys, <<>>, NoPeriod, <<>>, <<>>, DefaultSettings)

\* a number of the settings is well formed when it lies in its range
WellFormedOr(value, low, high, default) ==
    IF value \in low..high THEN value ELSE default

\* what the page must hold after a load of the blob: every well-formed
\* property of the blob, the default for every other one
ExpectedLoad(blob) ==
    IF blob = <<>>
    THEN FreshAggregate
    ELSE LET doc == blob[1]
             st == doc.settings
         IN  Doc(AllKeys,
                 KeyOr(doc, "periods", doc.periods, <<>>),
                 KeyOr(doc, "currentPeriod", doc.currentPeriod, NoPeriod),
                 KeyOr(doc, "notes", doc.notes, <<>>),
                 KeyOr(doc, "pillsTaken", doc.pillsTaken, <<>>),
                 IF "settings" \notin doc.keys
                 THEN DefaultSettings
                 ELSE [st EXCEPT
                          !.cycleLength =
                              WellFormedOr(@, MinCycleLength, MaxCycleLength,
                                           DefaultCycleLength),
                          !.periodLength =
                              WellFormedOr(@, MinPeriodLength, MaxPeriodLength,
                                           DefaultPeriodLength),
                          !.pillPackDays =
                              WellFormedOr(@, MinPackDays, MaxPackDays,
                                           DefaultPackDays)])

\* C26: a load with nothing persisted yields the fresh aggregate; a load of
\* a blob yields the blob with every missing or malformed property replaced
\* by its default and every well-formed property kept, so that a saved valid
\* aggregate loads as itself.
C26_LoadDefaults ==
    lastOp \in {"init", "reload"} => Data = ExpectedLoad(stored)

-----------------------------------------------------------------------------
(* The debounce *)

\* the steps of the resize handler and of its timer: a step that leaves a
\* timer pending leaves the one this.resizeTimeout names, a step that
\* leaves none is the firing of the pending timer and redraws the calendar
C27_Step ==
    /\ (timers' # timers /\ timers' # {}) => timers' = {resizeTimeout'}
    /\ (timers' # timers /\ timers' = {})
          => /\ timers = {resizeTimeout}
             /\ resizeTimeout' = resizeTimeout
             /\ events' = generateCalendarEvents(periods, currentPeriod, notes,
                                                 pillsTaken, settings, today)

\* C27: at most one recompute timer is pending; every resize cancels the
\* pending timer and schedules a new one; a timer fires only when it is
\* pending and recomputes the calendar, and a pending timer does fire: a
\* burst of resizes causes one recompute, after the last resize.
C27_Debounce ==
    /\ [](Cardinality(timers) <= 1 /\ timers \subseteq {resizeTimeout})
    /\ [][C27_Step]_vars
    /\ (timers # {} ~> timers = {})

C27_Witness ==
    /\ resizeTimeout # Null
    /\ timers = {}
    /\ notes # <<>>
    /\ events # <<>>

-----------------------------------------------------------------------------
(* Period operations *)

\* C28: after any sequence of period operations every closed period ends on
\* or after the day it starts: no operation that sets an end date accepts
\* one before the start date.
C28_EndNotBeforeStart ==
    \A i \in 1..Len(periods) :
        periods[i].endDate \in Days => periods[i].endDate >= periods[i].startDate


\* the stored index addresses the open period or a position of periods
EditIndexValid ==
    \/ editingPeriodIndex = CurrentIndex /\ currentPeriod # NoPeriod
    \/ editingPeriodIndex \in 0..(Len(periods) - 1)

\* the period the stored index addresses
Selected ==
    IF editingPeriodIndex = CurrentIndex THEN currentPeriod
    ELSE IF editingPeriodIndex \in 0..(Len(periods) - 1)
    THEN periods[editingPeriodIndex + 1]
    ELSE NoPeriod

\* while the dialog stays open the addressed period stays the same; a save
\* adds no record and a delete removes one
C29_Step ==
    /\ (periodModal = "edit" /\ periodModal' = "edit") => Selected' = Selected
    /\ (lastOp' = "savePeriodChanges:saved" /\ periodModal = "edit")
          => Records' = Records
    /\ (lastOp' = "deletePeriod:deleted" /\ periodModal = "edit")
          => Records' = Records - 1

\* C29: while the edit dialog is open the stored index is the open-period
\* sentinel or a valid position, and it addresses the period selected when
\* the dialog was opened whatever runs in between; save and delete act on
\* that period only and write nothing past the end.
C29_EditIndexStable ==
    /\ [](periodModal = "edit" => EditIndexValid)
    /\ [][C29_Step]_vars

-----------------------------------------------------------------------------
(* Predictions *)

\* C30: in every aggregate the period operations reach, the predicted start
\* dates are strictly increasing and each lies strictly after the start
\* date of every recorded period.
C30_PredictionsAhead ==
    LET future == calculateFuturePeriods(periods, PredictionCount)
    IN  /\ \A i \in 1..(Len(future) - 1) : future[i] < future[i + 1]
        /\ \A i \in 1..Len(future), k \in 1..Len(periods) :
               future[i] > periods[k].startDate

=============================================================================
